---------------------------- MODULE Spec2Model ----------------------------
(***************************************************************************)
(* A model of the dispatch scheduler of PostalServiceRouting:              *)
(* Scheduler.initialize / tick / reset_day (src/src/scheduler.py), the     *)
(* vehicle motion model (src/src/truck.py), the parcel status rules        *)
(* (src/src/package.py) and the address correction of src/src/main.py.     *)
(*                                                                         *)
(* Units.  Clock values are minutes since midnight; deadlines are seconds  *)
(* since midnight (the end-of-day deadline is 23:59:59).  Distances and    *)
(* odometers are tenths of a mile, so that a truck's reach in one minute   *)
(* (avg_speed / 60 = 0.3 miles) is the integer TravelPerMinute.            *)
(* Locations are 0..NumLocs, 0 is the hub, and the order of the numbers is *)
(* the order of the location names (Location.__lt__).                      *)
(***************************************************************************)
EXTENDS Integers, Sequences, FiniteSets, TLC

\* ------------------------------------------------------------------ bounds
NumPkgs == 2          \* parcels in the package table
NumTrucks == 2        \* vehicles
NumLocs == 2          \* non-hub locations
MaxDrivers == 2       \* the driver list has 1..MaxDrivers drivers
MaxCap == 2           \* every truck is configured with a capacity in 1..MaxCap
MaxCodes == 2         \* special codes and early deadlines in the whole table
MaxClock == 40        \* the caller stops calling tick at this minute

\* ------------------------------------------------------- program constants
Hub == 0
TravelPerMinute == 3  \* Truck avg_speed 18.0 mph / 60, in tenths of a mile
LookAhead == 15       \* minutes a dispatch waits for a delayed parcel
HourSec == 3600       \* timedelta(hours=1)
EODSec == 86399       \* "11:59:59 PM": the no-deadline deadline
Inf == 1000000        \* float("inf")
MinutesPerDay == 1440 \* "%I:%M %p" drops the date
InitTime == 0         \* init_time "12:00 AM"
DeliveryStart == 2    \* begin_delivery_time, a model input
EarlyDeadlineSec == 1800 \* a deadline of 12:30 AM, a model input
DelayEarly == 1       \* DELAY[00:01:00], elapses before delivery starts
DelayLate == 20       \* DELAY[00:20:00], elapses during the day
CorrectionTime == 6   \* the minute at which main.py corrects an address
LegLen == 4           \* distance between neighbouring locations
DetourLen == 2        \* extra length of every direct edge that skips a location

MaxWeight == 5        \* edge lengths of the graphs dijkstra is called on
NumStops == 3         \* the optimizer routes the stops 1..NumStops
NumRoutes == 2        \* it is asked for 1..NumRoutes routes
MaxStops == 3         \* no call is made on a RouteList with more stops in it

Pkgs == 1..NumPkgs
TruckIds == 1..NumTrucks
Locs == 0..NumLocs
Stops == 1..NumStops
StopLocs == {Hub} \cup Stops
NoDriver == 0
ReorderLen == 10      \* mutate reorders a route only when it is longer
MinRoutes == 1        \* generate_routes: num_routes
MaxRoutes == 50
MinGenerations == 100 \* generate_routes: total_generations
MaxGenerations == 100000
MinPopulation == 50   \* generate_routes: population_size
MaxPopulation == 1000
\* what the messages of generate_routes say of total_generations and
\* population_size
SaidMinGenerations == 50
SaidPopulationBelow == 1000
\* arguments on both sides of every limit of generate_routes
Around(limits) == UNION {{n - 1, n, n + 1} : n \in limits}

VARIABLES
  distance_table,        \* Location._distance_table of every location
  packages,              \* Scheduler.package_table: id -> Package
  package_priorities,    \* the priority list handed to initialize
  prioritized_pkgs,      \* Scheduler.prioritized_pkgs, parcel ids by priority
  route_list,            \* Scheduler.route_list
  trucks,                \* Scheduler.trucks: id -> Truck
  drivers,               \* Scheduler.drivers: the set of driver ids
  current_time,          \* Scheduler.current_time
  initialized_time,      \* Scheduler.initialized_time
  saved_invalid_packages,\* Scheduler.saved_invalid_packages
  saved_delayed_packages,\* Scheduler.saved_delayed_packages
  phase,                 \* "new", "ready" (initialized) or "crashed"
  last_tick,             \* what the last call of tick returned
  prev,                  \* history: parcels, trucks and clock before the last
                         \* tick (after the last call, when it was no tick);
                         \* of a tick also the parcels and trucks when the
                         \* trucks had moved, and the dispatches it began
  log,                   \* history: the loads and deliveries of the last call
  call                   \* the last call of a function of the route refiner or
                         \* of the route optimizer: its arguments and its result

vars == <<distance_table, packages, package_priorities, prioritized_pkgs,
          route_list, trucks, drivers, current_time, initialized_time,
          saved_invalid_packages, saved_delayed_packages, phase, last_tick,
          prev, log, call>>

\* ------------------------------------------------------------ list helpers
Abs(n) == IF n < 0 THEN -n ELSE n

Contains(s, x) == \E i \in 1..Len(s) : s[i] = x

Count(s, x) == Cardinality({i \in 1..Len(s) : s[i] = x})

Reverse(s) == [i \in 1..Len(s) |-> s[Len(s) + 1 - i]]

\* list.remove(x): drops the first occurrence of x
RemoveFirst(s, x) ==
  IF ~Contains(s, x) THEN s
  ELSE LET i == CHOOSE j \in 1..Len(s) : s[j] = x /\ \A k \in 1..(j-1) : s[k] # x
       IN  SubSeq(s, 1, i - 1) \o SubSeq(s, i + 1, Len(s))

\* list.insert(ix, x) with a 0-based index 0 <= ix <= len
InsertAt(s, ix, x) == SubSeq(s, 1, ix) \o <<x>> \o SubSeq(s, ix + 1, Len(s))

RECURSIVE SortedSeq(_)
SortedSeq(S) ==
  IF S = {} THEN <<>>
  ELSE LET m == CHOOSE x \in S : \A y \in S : x <= y
       IN  <<m>> \o SortedSeq(S \ {m})

\* ------------------------------------------------------ the location graph
\* A fully linked symmetric graph on a line of locations: neighbours are
\* LegLen apart, and a direct edge that skips locations is longer than the
\* walk through the locations between (so that dijkstra has a detour to find).
DetourGraph ==
  [a \in Locs, b \in Locs |->
     IF Abs(a - b) <= 1 THEN LegLen * Abs(a - b)
     ELSE LegLen * Abs(a - b) + DetourLen * (Abs(a - b) - 1)]

Graphs == {DetourGraph}

distance_from(a, b) == distance_table[a, b]

RECURSIVE get_route_distance(_)
get_route_distance(route) ==
  IF Len(route) < 2 THEN 0
  ELSE distance_from(route[2], route[1]) + get_route_distance(Tail(route))

\* ---------------------------------------------------------------- dijkstra
\* a pop that takes the entry with the greatest distance
HeapMax(heap) ==
  CHOOSE e \in heap :
    \A f \in heap : e[1] > f[1] \/ (e[1] = f[1] /\ e[2] >= f[2])

\* heapq.heappop on (distance, Location) tuples: least distance, then name
HeapMin(heap) ==
  CHOOSE e \in heap :
    \A f \in heap : e[1] < f[1] \/ (e[1] = f[1] /\ e[2] <= f[2])

RECURSIVE DijkstraLoop(_, _, _, _)
DijkstraLoop(sd, sp, heap, end) ==
  IF heap = {} THEN sp[end]
  ELSE
    LET e == HeapMin(heap)
        current == e[2]
        better == {n \in Locs : sd[current] + distance_from(current, n) < sd[n]}
        sd2 == [n \in Locs |->
                  IF n \in better THEN sd[current] + distance_from(current, n)
                  ELSE sd[n]]
        sp2 == [n \in Locs |->
                  IF n \in better THEN Append(sp[current], n) ELSE sp[n]]
    IN  IF current = end THEN Append(sp[end], end)
        ELSE DijkstraLoop(sd2, sp2,
                          (heap \ {e}) \cup {<<sd2[n], n>> : n \in better}, end)

dijkstra(start, end) ==
  DijkstraLoop([n \in Locs |-> IF n = start THEN 0 ELSE Inf],
               [n \in Locs |-> IF n = start THEN <<start>> ELSE <<>>],
               {<<0, start>>}, end)

RECURSIVE DijkstraRouteFrom(_, _)
DijkstraRouteFrom(route, i) ==
  IF i >= Len(route) THEN <<route[Len(route)]>>
  ELSE
    LET loc == route[i]
        next_loc == route[i + 1]
        optimal_path == dijkstra(loc, next_loc)
        n == Len(optimal_path)
    IN  (IF optimal_path # <<loc, next_loc>> /\ n > 2
         THEN SubSeq(optimal_path, 1, n - 1)
         ELSE <<loc>>) \o DijkstraRouteFrom(route, i + 1)

dijkstra_route(route) == DijkstraRouteFrom(route, 1)


\* ----------------------------------------------------------------- parcels
InHub == [k |-> "IN_HUB", v |-> 0]
DelayedUntil(t) == [k |-> "DELAYED", v |-> t]
EnRoute(truck_id) == [k |-> "EN_ROUTE", v |-> truck_id]
DeliveredAt(t) == [k |-> "DELIVERED", v |-> t]

\* strftime("%I:%M %p"): the time of day, without the date
FormatTime(t) == t % MinutesPerDay

\* A Package: destination, deadline, status and its special codes, which are
\* TRUCK[truck], DELAY[delay] (0: none), BATCH[batch] and INVALID.
ParcelChoices(p) ==
  [destination : 1..NumLocs,
   deadline : {EODSec, EarlyDeadlineSec},
   truck : {{}} \cup {{t} : t \in TruckIds},
   delay : {0, DelayEarly, DelayLate},
   batch : {{}, Pkgs \ {p}},
   invalid : BOOLEAN,
   status : {InHub}]

NumCodes(pkg) ==
    (IF pkg.truck # {} THEN 1 ELSE 0) + (IF pkg.delay # 0 THEN 1 ELSE 0)
  + (IF pkg.batch # {} THEN 1 ELSE 0) + (IF pkg.invalid THEN 1 ELSE 0)
  + (IF pkg.deadline # EODSec THEN 1 ELSE 0)

RECURSIVE SumCodes(_, _)
SumCodes(table, S) ==
  IF S = {} THEN 0
  ELSE LET p == CHOOSE x \in S : TRUE
       IN  NumCodes(table[p]) + SumCodes(table, S \ {p})

IsInvalid(pkg) == pkg.invalid

\* Package.update_status raises ValueError for an INVALID parcel unless the
\* new status is "IN HUB"
UpdateStatusRaises(pkg, new_status) == IsInvalid(pkg) /\ new_status # InHub

\* a status update that does not look at INVALID
UpdateStatusUnchecked(pkg, new_status) == [pkg EXCEPT !.status = new_status]

update_status(pkg, new_status) ==
  IF UpdateStatusRaises(pkg, new_status) THEN pkg
  ELSE [pkg EXCEPT !.status = new_status]

make_valid(pkg) == [pkg EXCEPT !.invalid = FALSE]

make_invalid(pkg) == [pkg EXCEPT !.invalid = TRUE]

\* Package.copy(): what reset_day reads of a saved copy
CopyOf(p, pkg) ==
  [id |-> p, destination |-> pkg.destination, status |-> pkg.status]

\* HashTable.all_values(): the parcels in the order they were inserted
all_values == [i \in 1..NumPkgs |-> i]

get_delayed_time(pkg) == pkg.delay

\* ------------------------------------------------------------------ trucks
NewTruck(cap) ==
  [capacity |-> cap, driver |-> NoDriver, packages |-> <<>>, mileage |-> 0,
   last_location |-> Hub, route |-> <<>>, distance_to_next |-> 0]

is_at_hub(truck) == truck.last_location = Hub /\ truck.route = <<>>

is_en_route(truck) == truck.route # <<>>

reset_route(truck) == [truck EXCEPT !.route = <<>>, !.last_location = Hub]

reset_driver(truck) == [truck EXCEPT !.driver = NoDriver]

\* Truck.add_to_route
add_to_route(truck, destination) ==
  [truck EXCEPT
     !.distance_to_next =
        IF truck.route = <<>> /\ is_at_hub(truck)
        THEN distance_from(truck.last_location, destination) ELSE @,
     !.route = Append(@, destination)]

\* Truck.drive: the truck after one minute, and whether it reached a stop
DriveArrives(truck) ==
  truck.route # <<>> /\ truck.distance_to_next < TravelPerMinute

drive(truck) ==
  IF truck.route = <<>> THEN truck
  ELSE IF truck.distance_to_next < TravelPerMinute
  THEN LET stop == Head(truck.route)
           rest == Tail(truck.route)
       IN  [truck EXCEPT
              !.last_location = stop,
              !.route = rest,
              !.distance_to_next =
                 IF rest = <<>> THEN 0 ELSE distance_from(stop, Head(rest))]
  ELSE [truck EXCEPT
          !.mileage = @ + TravelPerMinute,
          !.distance_to_next = @ - TravelPerMinute]

\* ------------------------------------------------- the state a call works on
\* pk: the parcels, tr: the trucks, lg: the loads and deliveries made so far,
\* err: an exception was raised (nothing after it is executed), ev: the
\* dispatches begun so far, mv: the parcels and trucks when the trucks had moved
World(pk, tr) ==
  [pk |-> pk, tr |-> tr, lg |-> <<>>, err |-> FALSE, ev |-> <<>>,
   mv |-> [pk |-> pk, tr |-> tr]]

HubSet(w) == {p \in Pkgs : w.pk[p].status = InHub}

AboardSet(w, p) == {t \in TruckIds : Contains(w.tr[t].packages, p)}

\* a load that does not look at the capacity
LoadUnchecked(w, t, p, pass) ==
  IF w.err THEN w
  ELSE [w EXCEPT
          !.tr[t].packages = Append(@, p),
          !.pk[p] = update_status(@, EnRoute(t)),
          !.err = UpdateStatusRaises(w.pk[p], EnRoute(t)),
          !.lg = Append(@, [op |-> "load", pkg |-> p, truck |-> t,
                            pass |-> pass, before |-> w.pk[p].status,
                            aboard |-> AboardSet(w, p), hub |-> HubSet(w)])]

\* Truck.load
load(w, t, p, pass) ==
  IF w.err \/ Len(w.tr[t].packages) >= w.tr[t].capacity THEN w
  ELSE [w EXCEPT
          !.tr[t].packages = Append(@, p),
          !.pk[p] = update_status(@, EnRoute(t)),
          !.err = UpdateStatusRaises(w.pk[p], EnRoute(t)),
          !.lg = Append(@, [op |-> "load", pkg |-> p, truck |-> t,
                            pass |-> pass, before |-> w.pk[p].status,
                            aboard |-> AboardSet(w, p), hub |-> HubSet(w)])]

\* Truck.attempt_delivery: the for loop walks the list by position while
\* list.remove shortens it
RECURSIVE AttemptFrom(_, _, _, _, _)
AttemptFrom(w, t, location, i, now) ==
  IF w.err \/ i > Len(w.tr[t].packages) THEN w
  ELSE
    LET p == w.tr[t].packages[i]
    IN  IF w.pk[p].destination = location
        THEN AttemptFrom(
               [w EXCEPT
                  !.tr[t].packages = RemoveFirst(@, p),
                  !.pk[p] = update_status(@, DeliveredAt(FormatTime(now))),
                  !.err = UpdateStatusRaises(w.pk[p], DeliveredAt(FormatTime(now))),
                  !.lg = Append(@, [op |-> "deliver", pkg |-> p, truck |-> t,
                                    pass |-> "arrival",
                                    before |-> w.pk[p].status,
                                    aboard |-> AboardSet(w, p),
                                    hub |-> HubSet(w)])],
               t, location, i + 1, now)
        ELSE AttemptFrom(w, t, location, i + 1, now)

\* a delivery of the first parcel of the load, whatever its destination
DeliverFirstAboard(w, t, location, now) ==
  IF w.err \/ w.tr[t].packages = <<>> THEN w
  ELSE [w EXCEPT
          !.pk[Head(w.tr[t].packages)] = update_status(@, DeliveredAt(FormatTime(now))),
          !.tr[t].packages = Tail(@)]

attempt_delivery(w, t, location, now) == AttemptFrom(w, t, location, 1, now)

\* Truck.reset_packages
RECURSIVE ResetPackagesFrom(_, _, _)
ResetPackagesFrom(w, t, i) ==
  IF i > Len(w.tr[t].packages) THEN [w EXCEPT !.tr[t].packages = <<>>]
  ELSE ResetPackagesFrom(
         [w EXCEPT !.pk[w.tr[t].packages[i]] = update_status(@, InHub)],
         t, i + 1)

reset_packages(w, t) == ResetPackagesFrom(w, t, 1)

\* ---------------------------------------------------------- optimize_route
\* location_priorities: the priority of the last loaded parcel for a location
LocationPriority(w, cargo, location) ==
  LET at == {i \in 1..Len(cargo) : w.pk[cargo[i]].destination = location}
  IN  IF at = {} THEN 0
      ELSE package_priorities[cargo[CHOOSE i \in at : \A j \in at : j <= i]]

\* the insertion index (0-based) that makes the route shortest; the first such
BestIndex(route, location) ==
  LET cand == 1..(Len(route) - 1)
      d(i) == get_route_distance(InsertAt(route, i, location))
  IN  IF cand = {} \/ \A i \in cand : d(i) >= Inf THEN 0
      ELSE CHOOSE i \in cand :
             /\ \A j \in cand : d(i) <= d(j)
             /\ \A j \in cand : j < i => d(j) > d(i)

RECURSIVE AddMissingFrom(_, _, _)
AddMissingFrom(route, package_locations, i) ==
  IF i > Len(package_locations) THEN route
  ELSE LET location == package_locations[i]
       IN  AddMissingFrom(
             IF Contains(route, location) THEN route
             ELSE InsertAt(route, BestIndex(route, location), location),
             package_locations, i + 1)

RECURSIVE DropUnvisitedFrom(_, _, _, _)
DropUnvisitedFrom(route, copy, package_locations, i) ==
  IF i > Len(copy) THEN route
  ELSE DropUnvisitedFrom(
         IF ~Contains(package_locations, copy[i]) /\ copy[i] # Hub
         THEN RemoveFirst(route, copy[i]) ELSE route,
         copy, package_locations, i + 1)

RECURSIVE WeightedSum(_, _, _, _)
WeightedSum(w, cargo, route, S) ==
  IF S = {} THEN 0
  ELSE LET i == CHOOSE x \in S : TRUE   \* a 0-based position of the route
       IN  LocationPriority(w, cargo, route[i + 1]) * (Len(route) - i)
           + WeightedSum(w, cargo, route, S \ {i})

MaybeReverse(w, cargo, route) ==
  IF Len(route) <= 2 THEN route
  ELSE
    LET dont_reverse_score == WeightedSum(w, cargo, route, 1..(Len(route) - 2))
        reverse_score == WeightedSum(w, cargo, route, 2..(Len(route) - 2))
    IN  IF reverse_score > dont_reverse_score THEN Reverse(route) ELSE route

DeadlineSoon(pkg, now) == pkg.deadline - now * 60 < HourSec

\* a step that leaves the stops where they are
KeepOrder(w, cargo, route, i, now) == route

RECURSIVE UrgentFirstFrom(_, _, _, _, _)
UrgentFirstFrom(w, cargo, route, i, now) ==
  IF i > Len(cargo) THEN route
  ELSE LET pkg == w.pk[cargo[i]]
       IN  UrgentFirstFrom(w, cargo,
             IF DeadlineSoon(pkg, now) /\ Contains(route, pkg.destination)
             THEN InsertAt(RemoveFirst(route, pkg.destination), 1, pkg.destination)
             ELSE route,
             i + 1, now)

RECURSIVE RemoveWhileRepeated(_, _)
RemoveWhileRepeated(s, x) ==
  IF Count(s, x) > 1 THEN RemoveWhileRepeated(RemoveFirst(s, x), x) ELSE s

RECURSIVE CollapseFrom(_, _, _)
CollapseFrom(s, copy, i) ==
  IF i > Len(copy) THEN s
  ELSE CollapseFrom(RemoveWhileRepeated(s, copy[i]), copy, i + 1)

CollapseRepeats(new_route) ==
  LET reversed_new_route == Reverse(new_route)
  IN  Reverse(CollapseFrom(reversed_new_route, reversed_new_route, 1))

optimize_route(w, cargo, route_to_optimize, now) ==
  LET package_locations == [i \in 1..Len(cargo) |-> w.pk[cargo[i]].destination]
      added == AddMissingFrom(route_to_optimize, package_locations, 1)
      kept == DropUnvisitedFrom(added, added, package_locations, 1)
      oriented == MaybeReverse(w, cargo, kept)
      urgent == UrgentFirstFrom(w, cargo, oriented, 1, now)
      new_route == Append(CollapseRepeats(dijkstra_route(urgent)), Hub)
  IN  dijkstra_route(new_route)

\* tick, lines 340-343: the refined stops are queued, the leading hub skipped
RECURSIVE PushRouteFrom(_, _, _)
PushRouteFrom(truck, optimized_route, i) ==
  IF i > Len(optimized_route) THEN truck
  ELSE PushRouteFrom(
         IF truck.route = <<>> /\ optimized_route[i] = Hub THEN truck
         ELSE add_to_route(truck, optimized_route[i]),
         optimized_route, i + 1)

\* -------------------------------------------------------------------- tick
\* tick, lines 167-177 and 360-370: delayed parcels whose time has come
RECURSIVE ResolveDelaysFrom(_, _, _)
ResolveDelaysFrom(w, i, now) ==
  IF w.err \/ i > Len(prioritized_pkgs) THEN w
  ELSE
    LET p == prioritized_pkgs[i]
        pkg == w.pk[p]
        new_status == IF now >= pkg.delay THEN InHub
                      ELSE DelayedUntil(FormatTime(pkg.delay))
    IN  ResolveDelaysFrom(
          IF pkg.delay # 0 /\ pkg.status.k = "DELAYED"
          THEN [w EXCEPT !.pk[p] = update_status(@, new_status),
                         !.err = UpdateStatusRaises(pkg, new_status)]
          ELSE w,
          i + 1, now)

\* every delayed parcel is put in the hub, whatever the time
ReleaseAllDelayed(w, now) ==
  [w EXCEPT !.pk = [p \in Pkgs |->
                      IF w.pk[p].status.k = "DELAYED"
                      THEN [w.pk[p] EXCEPT !.status = InHub] ELSE w.pk[p]]]

ResolveDelays(w, now) == ResolveDelaysFrom(w, 1, now)

\* an end-of-day test that is content with one delivered parcel
SomePackageDelivered(pk) ==
  \E p \in Pkgs : pk[p].status.k \in {"DELIVERED", "ATTEMPTED"}

\* tick, lines 181-185
all_packages_delivered(pk) ==
  \A p \in Pkgs : pk[p].status.k \in {"DELIVERED", "ATTEMPTED"}

\* a minute on the road that never gives the truck back at the hub
MoveWithoutRelease(w, t, now) ==
  IF w.err \/ ~is_en_route(w.tr[t]) THEN w
  ELSE
    LET w1 == [w EXCEPT !.tr[t] = drive(@)]
    IN  IF ~DriveArrives(w.tr[t]) THEN w1
        ELSE attempt_delivery(w1, t, w1.tr[t].last_location, now)

\* tick, lines 192-202: one truck's minute on the road
MoveTruck(w, t, now) ==
  IF w.err \/ ~is_en_route(w.tr[t]) THEN w
  ELSE
    LET arrived == DriveArrives(w.tr[t])
        w1 == [w EXCEPT !.tr[t] = drive(@)]
        w2 == attempt_delivery(w1, t, w1.tr[t].last_location, now)
    IN  IF ~arrived THEN w1
        ELSE IF w2.err THEN w2
        ELSE IF w2.tr[t].last_location = Hub /\ w2.tr[t].route = <<>>
        THEN reset_packages(
               [w2 EXCEPT !.tr[t] = reset_driver(reset_route(@))], t)
        ELSE w2

RECURSIVE MoveTrucksFrom(_, _, _)
MoveTrucksFrom(w, t, now) ==
  IF t > NumTrucks THEN w ELSE MoveTrucksFrom(MoveTruck(w, t, now), t + 1, now)

\* tick, lines 206-215
truck_scores(w) ==
  [t \in TruckIds |->
     Cardinality({p \in Pkgs : t \in w.pk[p].truck /\ w.pk[p].status = InHub})]

\* Scheduler.__check_package_for_loading
check_package_for_loading(w, p, t, stops) ==
  LET pkg == w.pk[p]
      truck_ids_special_code == pkg.truck
  IN  IF ~(t \in truck_ids_special_code \/ truck_ids_special_code = {})
      THEN FALSE
      ELSE IF t \in truck_ids_special_code THEN TRUE
      ELSE /\ pkg.destination \in stops
           /\ AboardSet(w, p) = {}
           /\ pkg.status = InHub
           /\ ~IsInvalid(pkg)

Full(w, t) == Len(w.tr[t].packages) >= w.tr[t].capacity

AllLocations == UNION {{r[i] : i \in 1..Len(r)} : r \in {route_list[j] : j \in 1..Len(route_list)}}

StopsOf(route) == {route[i] : i \in 1..Len(route)}

\* tick, lines 253-261: the route whose parcels in the hub weigh most
RouteScore(w, route) ==
  LET RECURSIVE Sum(_)
      Sum(S) == IF S = {} THEN 0
                ELSE LET p == CHOOSE x \in S : TRUE
                     IN  package_priorities[p] + Sum(S \ {p})
  IN  Sum({p \in Pkgs : w.pk[p].status = InHub
                        /\ w.pk[p].destination \in StopsOf(route)})

highest_score_route(w) ==
  LET ix == 1..Len(route_list)
      best == CHOOSE i \in ix :
                /\ \A j \in ix : RouteScore(w, route_list[j]) <= RouteScore(w, route_list[i])
                /\ \A j \in ix : j < i => RouteScore(w, route_list[j]) < RouteScore(w, route_list[i])
  IN  route_list[best]

\* tick, lines 264-273
batched_packages_to_deliver(w) ==
  {q \in Pkgs : w.pk[q].status = InHub /\ \E p \in Pkgs : q \in w.pk[p].batch}

\* tick, lines 287-295: the parcels a batched parcel names
RECURSIVE LoadGroupFrom(_, _, _, _)
LoadGroupFrom(w, t, pkg_ids, i) ==
  IF w.err \/ i > Len(pkg_ids) THEN w
  ELSE LoadGroupFrom(
         IF check_package_for_loading(w, pkg_ids[i], t, AllLocations)
         THEN load(w, t, pkg_ids[i], "batch") ELSE w,
         t, pkg_ids, i + 1)

\* tick, lines 276-295
RECURSIVE BatchPassFrom(_, _, _, _)
BatchPassFrom(w, t, i, batched) ==
  IF w.err \/ i > Len(prioritized_pkgs) \/ Full(w, t) THEN w
  ELSE
    LET p == prioritized_pkgs[i]
        w1 == IF check_package_for_loading(w, p, t, AllLocations)
              THEN load(w, t, p, "batch") ELSE w
    IN  BatchPassFrom(
          IF p \in batched
          THEN LoadGroupFrom(w1, t, SortedSeq(w.pk[p].batch), 1) ELSE w,
          t, i + 1, batched)

\* tick, lines 298-311
RECURSIVE DeadlinePassFrom(_, _, _, _)
DeadlinePassFrom(w, t, i, batched) ==
  IF w.err \/ i > Len(prioritized_pkgs) THEN w
  ELSE
    LET p == prioritized_pkgs[i]
    IN  IF p \in batched THEN DeadlinePassFrom(w, t, i + 1, batched)
        ELSE IF Full(w, t) THEN w
        ELSE DeadlinePassFrom(
               IF w.pk[p].deadline # EODSec
                  /\ check_package_for_loading(w, p, t, AllLocations)
               THEN load(w, t, p, "deadline") ELSE w,
               t, i + 1, batched)

\* tick, lines 314-325
RECURSIVE RoutePassFrom(_, _, _, _, _)
RoutePassFrom(w, t, i, batched, route) ==
  IF w.err \/ i > Len(prioritized_pkgs) THEN w
  ELSE
    LET p == prioritized_pkgs[i]
    IN  IF p \in batched THEN RoutePassFrom(w, t, i + 1, batched, route)
        ELSE IF Full(w, t) THEN w
        ELSE RoutePassFrom(
               IF check_package_for_loading(w, p, t, StopsOf(route))
               THEN load(w, t, p, "route") ELSE w,
               t, i + 1, batched, route)

\* tick, lines 330-336
RECURSIVE TopOffFrom(_, _, _)
TopOffFrom(w, t, i) ==
  IF w.err \/ i > Len(prioritized_pkgs) \/ Full(w, t) THEN w
  ELSE
    LET p == prioritized_pkgs[i]
    IN  TopOffFrom(
          IF /\ ~Contains(w.tr[t].packages, p)
             /\ w.pk[p].status = InHub
             /\ ~IsInvalid(w.pk[p])
          THEN load(w, t, p, "topoff") ELSE w,
          t, i + 1)

DelayedPackages(w) == {p \in Pkgs : w.pk[p].status.k = "DELAYED"}

NeverWait(w, now) == FALSE

\* tick, lines 238-243
MustWait(w, now) ==
  /\ DelayedPackages(w) # {}
  /\ \E p \in DelayedPackages(w) : now >= get_delayed_time(w.pk[p]) - LookAhead

\* tick, lines 252-343: the truck is loaded and sent out
LoadAndRoute(w, t, now) ==
  LET route == highest_score_route(w)
      batched == batched_packages_to_deliver(w)
      delayed_packages == DelayedPackages(w)
      w1 == BatchPassFrom(w, t, 1, batched)
      w2 == DeadlinePassFrom(w1, t, 1, batched)
      w3 == RoutePassFrom(w2, t, 1, batched, route)
      w4 == IF delayed_packages = {} THEN TopOffFrom(w3, t, 1) ELSE w3
      optimized_route == optimize_route(w4, w4.tr[t].packages, route, now)
  IN  IF w4.err THEN w4
      ELSE [w4 EXCEPT
              !.tr[t] = PushRouteFrom(@, optimized_route, 1),
              !.ev = Append(@, [op |-> "dispatch", truck |-> t,
                                driver |-> w.tr[t].driver,
                                cargo |-> w4.tr[t].packages])]

\* a dispatch that takes the first driver of the day, on a truck or not
DispatchWithFirstDriver(w, trucks_at_hub, drivers_at_hub, scores, now) ==
  IF w.err \/ trucks_at_hub = {} \/ drivers = {} THEN w
  ELSE
    LET t == CHOOSE x \in trucks_at_hub : \A y \in trucks_at_hub : x <= y
        first_driver == CHOOSE d \in drivers : \A e \in drivers : d <= e
    IN  LoadAndRoute([w EXCEPT !.tr[t].driver = first_driver], t, now)

\* tick, lines 224-358: while a truck and a driver are at the hub
RECURSIVE DispatchLoop(_, _, _, _, _)
DispatchLoop(w, trucks_at_hub, drivers_at_hub, scores, now) ==
  IF w.err \/ trucks_at_hub = {} \/ drivers_at_hub = {} THEN w
  ELSE
    LET t == CHOOSE x \in trucks_at_hub :
               /\ \A y \in trucks_at_hub : scores[y] <= scores[x]
               /\ \A y \in trucks_at_hub : y < x => scores[y] < scores[x]
        free == {d \in drivers_at_hub : \A u \in TruckIds : w.tr[u].driver # d}
        first_available_driver == CHOOSE d \in free : \A e \in free : d <= e
        w1 == [w EXCEPT !.tr[t].driver = first_available_driver]
    IN  IF MustWait(w1, now)
        THEN reset_packages(
               [w1 EXCEPT !.tr[t] = reset_driver(reset_route(@)),
                          !.ev = Append(@, [op |-> "wait", truck |-> t,
                                            driver |-> first_available_driver])],
               t)
        ELSE DispatchLoop(LoadAndRoute(w1, t, now),
                          trucks_at_hub \ {t},
                          drivers_at_hub \ {first_available_driver},
                          scores, now)

\* a tick that sends the trucks out before it moves them
DispatchBeforeMotion(w, now) ==
  LET trucks_at_hub == {t \in TruckIds : is_at_hub(w.tr[t])}
      drivers_at_hub ==
        {d \in drivers : \A t \in TruckIds : w.tr[t].driver # d}
      sent == DispatchLoop(w, trucks_at_hub, drivers_at_hub, truck_scores(w), now)
  IN  ResolveDelays(MoveTrucksFrom(sent, 1, now), now)

\* tick, lines 191-370, at or after the delivery start with parcels left
WorkingTick(w, now) ==
  LET driven == MoveTrucksFrom(w, 1, now)
      moved == [driven EXCEPT !.mv = [pk |-> driven.pk, tr |-> driven.tr]]
      trucks_at_hub == {t \in TruckIds : is_at_hub(moved.tr[t])}
      drivers_at_hub ==
        {d \in drivers : \A t \in TruckIds : moved.tr[t].driver # d}
      sent == DispatchLoop(moved, trucks_at_hub, drivers_at_hub,
                           truck_scores(moved), now)
  IN  ResolveDelays(sent, now)

\* ------------------------------------------------------------ the program
\* The route list handed to initialize: one route per location
RouteLists ==
  {[l \in 1..NumLocs |-> <<Hub, l, Hub>>]}

ParcelTables ==
  {table \in [Pkgs -> UNION {ParcelChoices(p) : p \in Pkgs}] :
     /\ \A p \in Pkgs : table[p] \in ParcelChoices(p)
     /\ SumCodes(table, Pkgs) <= MaxCodes}

PriorityLists == {[p \in Pkgs |-> p], [p \in Pkgs |-> NumPkgs + 1 - p]}

Snapshot(op, pk, tr, now) ==
  [op |-> op, packages |-> pk, trucks |-> tr, time |-> now]

NoCall == [op |-> "none"]

\* The objects main.py constructs before it calls Scheduler.initialize
Init ==
  /\ call = NoCall
  /\ distance_table \in Graphs
  /\ packages \in ParcelTables
  /\ package_priorities \in PriorityLists
  /\ route_list \in RouteLists
  /\ trucks \in {[t \in TruckIds |-> NewTruck(cap)] : cap \in 1..MaxCap}
  /\ drivers \in {1..n : n \in 1..MaxDrivers}
  /\ prioritized_pkgs = <<>>
  /\ current_time = InitTime
  /\ initialized_time = InitTime
  /\ saved_invalid_packages = <<>>
  /\ saved_delayed_packages = <<>>
  /\ phase = "new"
  /\ last_tick = "none"
  /\ prev = Snapshot("none", packages, trucks, InitTime)
  /\ log = <<>>

\* sorted(zip(package_list, package_priorities), key=priority, reverse=True):
\* by falling priority, parcels of equal priority in the table's order
RECURSIVE SortByPriority(_)
SortByPriority(S) ==
  IF S = {} THEN <<>>
  ELSE LET m == CHOOSE x \in S :
                  \A y \in S : \/ package_priorities[y] < package_priorities[x]
                               \/ (package_priorities[y] = package_priorities[x] /\ x <= y)
       IN  <<m>> \o SortByPriority(S \ {m})

\* initialize, lines 77-80
RECURSIVE SaveInvalidFrom(_, _)
SaveInvalidFrom(saved, i) ==
  IF i > Len(all_values) THEN saved
  ELSE LET p == all_values[i]
       IN  SaveInvalidFrom(
             IF IsInvalid(packages[p]) THEN Append(saved, CopyOf(p, packages[p]))
             ELSE saved,
             i + 1)

\* initialize, lines 83-95: r.pk the parcels, r.saved the delayed copies,
\* r.err whether update_status raised
RECURSIVE InitialStatusFrom(_, _)
InitialStatusFrom(r, i) ==
  IF r.err \/ i > Len(all_values) THEN r
  ELSE
    LET p == all_values[i]
        pkg == r.pk[p]
        new_status == IF pkg.delay # 0 THEN DelayedUntil(FormatTime(pkg.delay))
                      ELSE InHub
        updated == update_status(pkg, new_status)
        raised == UpdateStatusRaises(pkg, new_status)
    IN  InitialStatusFrom(
          [pk |-> [r.pk EXCEPT ![p] = updated],
           saved |-> IF pkg.delay # 0 /\ ~raised
                     THEN Append(r.saved, CopyOf(p, updated)) ELSE r.saved,
           err |-> raised],
          i + 1)

\* Scheduler.initialize
Initialize ==
  /\ phase = "new"
  /\ LET r == InitialStatusFrom(
                [pk |-> packages, saved |-> saved_delayed_packages, err |-> FALSE], 1)
     IN  /\ packages' = r.pk
         /\ saved_delayed_packages' = r.saved
         /\ phase' = IF r.err THEN "crashed" ELSE "ready"
  /\ prioritized_pkgs' = SortByPriority(Pkgs)
  /\ current_time' = InitTime
  /\ initialized_time' = InitTime
  /\ saved_invalid_packages' = SaveInvalidFrom(saved_invalid_packages, 1)
  /\ prev' = Snapshot("initialize", packages', trucks, InitTime)
  /\ log' = <<>>
  /\ UNCHANGED <<distance_table, package_priorities, route_list, trucks,
                 drivers, last_tick, call>>

\* a clock that stands still
SameMinute(now) == now

\* current_time += timedelta(minutes=1)
NextMinute(now) == now + 1

\* what tick leaves behind: w the parcels and trucks, result what it returned
\* ("error": an exception left it), now the clock
TickOutcome ==
  LET w0 == World(packages, trucks)
      now == current_time
  IN  IF now < DeliveryStart
      THEN LET w == ResolveDelays(w0, now)
           IN  IF w.err THEN [w |-> w, result |-> "error", now |-> now]
               ELSE [w |-> w, result |-> "more", now |-> NextMinute(now)]
      ELSE IF all_packages_delivered(packages)
      THEN [w |-> w0, result |-> "done", now |-> now]
      ELSE LET w == WorkingTick(w0, now)
           IN  IF w.err THEN [w |-> w, result |-> "error", now |-> now]
               ELSE [w |-> w, result |-> "more", now |-> NextMinute(now)]

\* Scheduler.tick, called as main.py calls it: until a given time of day
\* (main.py: while Scheduler.get_current_time() != "11:59 PM" and tick())
Tick ==
  /\ phase = "ready"
  /\ current_time < MaxClock
  /\ \E out \in {TickOutcome} :
       /\ packages' = out.w.pk
       /\ trucks' = out.w.tr
       /\ log' = out.w.lg
       /\ current_time' = out.now
       /\ last_tick' = out.result
       /\ phase' = IF out.result = "error" THEN "crashed" ELSE "ready"
       /\ prev' = [op |-> "tick", packages |-> packages, trucks |-> trucks,
                   time |-> current_time, moved |-> out.w.mv,
                   events |-> out.w.ev]
  /\ UNCHANGED <<distance_table, package_priorities, prioritized_pkgs,
                 route_list, drivers, initialized_time,
                 saved_invalid_packages, saved_delayed_packages, call>>

\* a reset of the trucks that leaves the odometers as they are
RECURSIVE ResetTrucksKeepOdometer(_, _)
ResetTrucksKeepOdometer(w, t) ==
  IF t > NumTrucks THEN w
  ELSE LET w1 == reset_packages(w, t)
       IN  ResetTrucksKeepOdometer(
             [w1 EXCEPT !.tr[t] =
                [reset_route(reset_driver(@)) EXCEPT
                   !.distance_to_next = 0, !.last_location = Hub]],
             t + 1)

\* reset_day, lines 103-109
RECURSIVE ResetTrucksFrom(_, _)
ResetTrucksFrom(w, t) ==
  IF t > NumTrucks THEN w
  ELSE LET w1 == reset_packages(w, t)
       IN  ResetTrucksFrom(
             [w1 EXCEPT !.tr[t] =
                [reset_route(reset_driver(@)) EXCEPT
                   !.distance_to_next = 0, !.mileage = 0, !.last_location = Hub]],
             t + 1)

\* reset_day, lines 116-120
RECURSIVE RestoreInvalidFrom(_, _)
RestoreInvalidFrom(pk, i) ==
  IF i > Len(saved_invalid_packages) THEN pk
  ELSE LET saved == saved_invalid_packages[i]
       IN  RestoreInvalidFrom(
             [pk EXCEPT ![saved.id] =
                make_invalid([update_status(@, InHub) EXCEPT
                                !.destination = saved.destination])],
             i + 1)

\* reset_day, lines 123-125
RECURSIVE RestoreDelayedFrom(_, _)
RestoreDelayedFrom(r, i) ==
  IF r.err \/ i > Len(saved_delayed_packages) THEN r
  ELSE LET saved == saved_delayed_packages[i]
       IN  RestoreDelayedFrom(
             [pk |-> [r.pk EXCEPT ![saved.id] = update_status(@, saved.status)],
              err |-> UpdateStatusRaises(r.pk[saved.id], saved.status)],
             i + 1)

\* Scheduler.reset_day
ResetDay ==
  /\ phase = "ready"
  /\ LET w == ResetTrucksFrom(World(packages, trucks), 1)
         in_hub == [p \in Pkgs |-> update_status(w.pk[p], InHub)]
         r == RestoreDelayedFrom(
                [pk |-> RestoreInvalidFrom(in_hub, 1), err |-> FALSE], 1)
     IN  /\ trucks' = w.tr
         /\ packages' = r.pk
         /\ phase' = IF r.err THEN "crashed" ELSE "ready"
         /\ current_time' = IF r.err THEN current_time ELSE initialized_time
  /\ last_tick' = "none"
  /\ prev' = [op |-> "reset", packages |-> packages', trucks |-> trucks',
              time |-> current_time',
              delivered |-> {p \in Pkgs : packages[p].status.k = "DELIVERED"},
              driven |-> {t \in TruckIds : trucks[t].mileage > 0},
              corrected |-> {saved_invalid_packages[i].id :
                               i \in {j \in 1..Len(saved_invalid_packages) :
                                        ~packages[saved_invalid_packages[j].id].invalid}}]
  /\ log' = <<>>
  /\ UNCHANGED <<distance_table, package_priorities, prioritized_pkgs,
                 route_list, drivers, initialized_time,
                 saved_invalid_packages, saved_delayed_packages, call>>

\* main.py update_packages: after a tick that returned True at a fixed time
\* of day ("10:20 AM" there), the address of an INVALID parcel is corrected
UpdatePackages ==
  /\ phase = "ready"
  /\ last_tick = "more"
  /\ current_time = CorrectionTime
  /\ \E p \in Pkgs, correct_location \in 1..NumLocs :
       /\ IsInvalid(packages[p])
       /\ packages' = [packages EXCEPT ![p] =
            make_valid(update_status([@ EXCEPT !.destination = correct_location],
                                     InHub))]
  /\ prev' = Snapshot("update", packages', trucks, current_time)
  /\ log' = <<>>
  /\ UNCHANGED <<distance_table, package_priorities, prioritized_pkgs,
                 route_list, trucks, drivers, current_time, initialized_time,
                 saved_invalid_packages, saved_delayed_packages, phase,
                 last_tick, call>>

Next == Initialize \/ Tick \/ ResetDay \/ UpdatePackages

Spec == Init /\ [][Next]_vars

\* ------------------------------------------- dijkstra as a function of a graph
\* The distance tables Location.add_distance can build over the locations:
\* symmetric, zero from a location to itself, any length in 1..MaxWeight else
WeightedGraphs ==
  {g \in [Locs \X Locs -> 0..MaxWeight] :
     \A a \in Locs, b \in Locs :
       /\ g[a, b] = g[b, a]
       /\ (g[a, b] = 0) = (a = b)}

\* the scheduler is not initialized while a function is called on its own
SchedulerAtRest ==
  /\ packages = <<>>
  /\ package_priorities = <<>>
  /\ prioritized_pkgs = <<>>
  /\ route_list = <<>>
  /\ trucks = <<>>
  /\ drivers = {}
  /\ current_time = InitTime
  /\ initialized_time = InitTime
  /\ saved_invalid_packages = <<>>
  /\ saved_delayed_packages = <<>>
  /\ phase = "new"
  /\ last_tick = "none"
  /\ prev = [op |-> "none"]
  /\ log = <<>>

scheduler_vars ==
  <<packages, package_priorities, prioritized_pkgs, route_list, trucks,
    drivers, current_time, initialized_time, saved_invalid_packages,
    saved_delayed_packages, phase, last_tick, prev, log>>

GraphInit ==
  /\ distance_table \in WeightedGraphs
  /\ call = NoCall
  /\ SchedulerAtRest

\* Scheduler.dijkstra(locations, start, end), on all the locations
Dijkstra ==
  /\ \E start \in Locs, end \in Locs :
       call' = [op |-> "dijkstra", start |-> start, end |-> end,
                path |-> dijkstra(start, end)]
  /\ UNCHANGED <<distance_table, scheduler_vars>>

GraphNext == Dijkstra

GraphSpec == GraphInit /\ [][GraphNext]_vars

\* ------------------------------------------------------------- RouteList
\* A RouteList is its _route_set: a list of routes, each a list of locations.
\* Python lists are objects: heap holds the inner lists (the routes), and an
\* outer list is a list of references into heap.
Ok(heap) == [heap |-> heap, raised |-> FALSE]

Raise(heap) == [heap |-> heap, raised |-> TRUE]

\* a[ix_a], b[ix_b] = b[ix_b], a[ix_a] through a temporary, on the routes
\* heap[i] and heap[j] (which may be one list); indices as in Python
SwapLocations(heap, i, ix_from, j, ix_to) ==
  LET swap_location == heap[i][ix_from + 1]
      h1 == [heap EXCEPT ![i][ix_from + 1] = heap[j][ix_to + 1]]
  IN  [h1 EXCEPT ![j][ix_to + 1] = swap_location]

\* a swap that draws its indices from the whole of both routes
ExchangeSwapAnywhere(heap, i, j) ==
  {Ok(SwapLocations(heap, i, ix_swap_from, j, ix_swap_to)) :
     ix_swap_from \in 0..(Len(heap[i]) - 1),
     ix_swap_to \in 0..(Len(heap[j]) - 1)}

\* mutate, lines 47-53: random.randint(1, n) raises ValueError when n < 1
ExchangeSwap(heap, i, j) ==
  IF Len(heap[i]) - 2 < 1 \/ Len(heap[j]) - 2 < 1 THEN {Raise(heap)}
  ELSE {Ok(SwapLocations(heap, i, ix_swap_from, j, ix_swap_to)) :
          ix_swap_from \in 1..(Len(heap[i]) - 2),
          ix_swap_to \in 1..(Len(heap[j]) - 2)}

\* mutate, lines 55-68
ExchangeGive(heap, i, j) ==
  IF Len(heap[i]) <= 2 /\ Len(heap[j]) <= 2 THEN {Ok(heap)}
  ELSE IF Len(heap[i]) <= 2 THEN {Raise(heap)}
  ELSE IF Len(heap[j]) - 2 < 1 THEN {Raise(heap)}
  ELSE {Ok([heap EXCEPT ![j] = InsertAt(@, ix_insert, heap[i][ix_give + 1])]) :
          ix_give \in 1..(Len(heap[i]) - 2),
          ix_insert \in 1..(Len(heap[j]) - 2)}

\* mutate, lines 70-83
ReorderSelf(heap, i) ==
  LET len == Len(heap[i])
      Forward(ix) == IF ix < len - 3 THEN ix + 1 ELSE ix - 1
      Backward(ix) == IF ix > 2 THEN ix - 1 ELSE ix + 1
  IN  UNION {{Ok(SwapLocations(heap, i, ix_swap_from, i, ix_swap_to)) :
                 ix_swap_to \in {Forward(ix_swap_from), Backward(ix_swap_from)}} :
               ix_swap_from \in 1..(len - 2)}

\* mutate, lines 28-83: what one turn of the loop can do to the route
\* new_list[i] (i counts from 1 here)
MutateRoute(heap, new_list, i) ==
  LET num_routes == Len(new_list)
      current == new_list[i]
      neighbors == {new_list[(i % num_routes) + 1],
                    new_list[((i - 2 + num_routes) % num_routes) + 1]}
  IN  (IF num_routes > 1 THEN {Ok(heap)} ELSE {})
      \cup UNION {ExchangeSwap(heap, current, n) \cup ExchangeGive(heap, current, n) :
                    n \in neighbors}
      \cup (IF Len(heap[current]) > ReorderLen THEN ReorderSelf(heap, current)
            ELSE {})

RECURSIVE MutateFrom(_, _, _)
MutateFrom(heap, new_list, i) ==
  IF i > Len(new_list) THEN {Ok(heap)}
  ELSE UNION {IF o.raised THEN {o} ELSE MutateFrom(o.heap, new_list, i + 1) :
                o \in MutateRoute(heap, new_list, i)}

RouteSet(heap, refs) == [k \in 1..Len(refs) |-> heap[refs[k]]]

\* list.copy(): a new outer list of the same inner lists
ShallowCopy(refs) == refs

\* RouteList.mutate: every outcome the random choices allow.  new: the routes
\* of the RouteList returned (none when raised), self: the routes of the
\* RouteList it was called on, after the call
mutate(route_set) ==
  LET heap == route_set
      self_route_set == [k \in 1..Len(route_set) |-> k]
      new_list == ShallowCopy(self_route_set)
  IN  {[new |-> RouteSet(o.heap, new_list),
        self |-> RouteSet(o.heap, self_route_set),
        raised |-> o.raised] : o \in MutateFrom(heap, new_list, 1)}

Range(seq) == {seq[k] : k \in 1..Len(seq)}

get_all_locations(route_set) == UNION {Range(route_set[k]) : k \in 1..Len(route_set)}

\* __get_route_deviance raises ValueError for such a route
BadEndpoints(route, hub_location) ==
  route[1] # hub_location \/ route[Len(route)] # hub_location

get_route_deviance(route, hub_location) ==
  LET longest_distance ==
        CHOOSE d \in {distance_from(l, hub_location) : l \in Range(route)} \cup {0} :
          \A l \in Range(route) : distance_from(l, hub_location) <= d
  IN  get_route_distance(route) - 2 * longest_distance

\* offspring's location_density, a fraction <<stops, distance>>; 0 when the
\* route has no length
location_density(route) ==
  IF get_route_distance(route) = 0 THEN <<0, 1>>
  ELSE <<Len(route) - 2, get_route_distance(route)>>

FractionLess(a, b) == a[1] * b[2] < b[1] * a[2]

\* offspring's route_fitness in hundredths, a fraction: distances are tenths
\* of a mile, so -0.3, -6.0, -0.5 and 5.0 become -3, -600, -5 and 5000
route_fitness(route, hub_location) ==
  LET total_distance == get_route_distance(route)
      num_locations == Len(route) - 2
      deviance == get_route_deviance(route, hub_location)
      density == location_density(route)
      weighted == total_distance * (-3) + num_locations * (-600) + deviance * (-5)
  IN  <<weighted * density[2] + 5000 * density[1], density[2]>>

RemoveIx(seq, i) == SubSeq(seq, 1, i - 1) \o SubSeq(seq, i + 1, Len(seq))

\* list.sort(key = route_fitness, reverse = True): descending and stable
RECURSIVE SortByFitness(_, _)
SortByFitness(routes, hub_location) ==
  IF routes = <<>> THEN <<>>
  ELSE
    LET Fit(k) == route_fitness(routes[k], hub_location)
        first == CHOOSE i \in 1..Len(routes) :
                   /\ \A j \in 1..Len(routes) : ~FractionLess(Fit(i), Fit(j))
                   /\ \A j \in 1..(i - 1) : FractionLess(Fit(j), Fit(i))
    IN  <<routes[first]>> \o SortByFitness(RemoveIx(routes, first), hub_location)

\* offspring, lines 145-156
RECURSIVE AcceptRoutes(_, _, _, _, _)
AcceptRoutes(sorted, num_routes, hub_location, offspring_routes, added_locations) ==
  IF sorted = <<>> \/ Len(offspring_routes) >= num_routes
  THEN [routes |-> offspring_routes, added |-> added_locations]
  ELSE
    LET Fresh(location) == location \notin added_locations /\ location # hub_location
        new_route == <<hub_location>> \o SelectSeq(Head(sorted), Fresh) \o <<hub_location>>
    IN  AcceptRoutes(Tail(sorted), num_routes, hub_location,
                     Append(offspring_routes, new_route),
                     added_locations \cup Range(new_route))

\* offspring, lines 160-161
RECURSIVE PadRoutes(_, _, _)
PadRoutes(offspring_routes, num_routes, hub_location) ==
  IF Len(offspring_routes) >= num_routes THEN offspring_routes
  ELSE PadRoutes(Append(offspring_routes, <<hub_location, hub_location>>),
                 num_routes, hub_location)

\* min(offspring_routes, key = location_density): the first of the least
LeastDense(offspring_routes) ==
  LET Dens(k) == location_density(offspring_routes[k])
  IN  CHOOSE i \in 1..Len(offspring_routes) :
        /\ \A j \in 1..Len(offspring_routes) : ~FractionLess(Dens(j), Dens(i))
        /\ \A j \in 1..(i - 1) : FractionLess(Dens(i), Dens(j))

\* left-over stops that are forgotten
DropLeftOver(offspring_routes, left) == {offspring_routes}

\* offspring, lines 164-170: a Python set is walked in no particular order
RECURSIVE PlaceLeftOver(_, _)
PlaceLeftOver(offspring_routes, left) ==
  IF left = {} THEN {offspring_routes}
  ELSE UNION {
         LET least_dense_route == LeastDense(offspring_routes)
         IN  PlaceLeftOver(
               [offspring_routes EXCEPT ![least_dense_route] =
                  InsertAt(@, Len(@) - 1, location)],
               left \ {location}) : location \in left}

\* parents that are taken whatever they are
AnyParents(self, other_parent) == FALSE

\* offspring, lines 96-101: the parents it raises ValueError for
ParentsMismatch(self, other_parent) ==
  \/ get_all_locations(self) # get_all_locations(other_parent)
  \/ Len(self) # Len(other_parent)

\* RouteList.offspring: every outcome it can have.  new: the routes of the
\* RouteList returned; self, other: the parents' routes after the call
offspring(self, other_parent, hub_location) ==
  LET Raised == {[new |-> <<>>, self |-> self, other |-> other_parent, raised |-> TRUE]}
      all_routes == self \o other_parent
  IN  IF ParentsMismatch(self, other_parent) THEN Raised
      ELSE IF \E k \in 1..Len(all_routes) : BadEndpoints(all_routes[k], hub_location)
      THEN Raised
      ELSE
        LET route_densities == SortByFitness(all_routes, hub_location)
            accepted == AcceptRoutes(route_densities, Len(self), hub_location, <<>>, {})
            offspring_routes == PadRoutes(accepted.routes, Len(self), hub_location)
            all_locations == get_all_locations(self) \cup get_all_locations(other_parent)
            left == (all_locations \ accepted.added) \ {hub_location}
        IN  {[new |-> r, self |-> self, other |-> other_parent, raised |-> FALSE] :
               r \in PlaceLeftOver(offspring_routes, left)}

\* ------------------------------------------------------------- Optimizer
\* generate_routes, lines 65-72: the arguments it raises ValueError for
ArgumentsRejected(num_routes, total_generations, population_size) ==
  \/ num_routes < MinRoutes \/ num_routes > MaxRoutes
  \/ total_generations < MinGenerations \/ total_generations > MaxGenerations
  \/ population_size < MinPopulation \/ population_size > MaxPopulation

\* locations_to_visit[i::num_routes], i counted from 0
RECURSIVE Slice(_, _, _)
Slice(seq, i, step) ==
  IF i + 1 > Len(seq) THEN <<>>
  ELSE <<seq[i + 1]>> \o Slice(seq, i + step, step)

\* generate_routes, lines 81-89: one member of the first generation, from
\* the order random.shuffle left locations_to_visit in
InitialMember(locations_to_visit, num_routes, hub) ==
  [i \in 1..num_routes |->
     <<hub>> \o Slice(locations_to_visit, i - 1, num_routes) \o <<hub>>]

Perms(S) ==
  {p \in [1..Cardinality(S) -> S] : \A i, j \in 1..Cardinality(S) : p[i] = p[j] => i = j}

RECURSIVE SeqSum(_)
SeqSum(seq) == IF seq = <<>> THEN 0 ELSE Head(seq) + SeqSum(Tail(seq))

\* the routes that visit the stops of order, lens[k] of them in route k
RECURSIVE CutRoutes(_, _)
CutRoutes(order, lens) ==
  IF lens = <<>> THEN <<>>
  ELSE <<(<<Hub>> \o SubSeq(order, 1, Head(lens)) \o <<Hub>>)>>
       \o CutRoutes(SubSeq(order, Head(lens) + 1, Len(order)), Tail(lens))

\* the RouteLists of n routes from and to the hub that visit each stop of S
\* exactly once
CoveringRouteLists(S, n) ==
  {CutRoutes(order, lens) :
     order \in Perms(S),
     lens \in {l \in [1..n -> 0..Cardinality(S)] : SeqSum(l) = Cardinality(S)}}

ParentLists ==
  UNION {CoveringRouteLists(S, n) : S \in (SUBSET Stops) \ {{}}, n \in 1..NumRoutes}

\* __fitness, line 265: get_max_locations_per_mile divides the number of
\* locations of every route by its distance, ZeroDivisionError for a route
\* of no length
FitnessRaises(route_set) ==
  \E k \in 1..Len(route_set) : get_route_distance(route_set[k]) = 0

\* __select, line 305: route.copy() of each of the best int(len * 0.7)
\* RouteLists; RouteList has no method copy, AttributeError
SelectRaises(population_size) == (population_size * 7) \div 10 >= 1

\* Optimizer.generate_routes: how the call ends, and the best fitness of
\* each generation that __select ranked
generate_routes(num_routes, total_generations, population_size) ==
  IF ArgumentsRejected(num_routes, total_generations, population_size)
  THEN [error |-> "ValueError", best |-> <<>>]
  ELSE IF \E locations_to_visit \in Perms(StopLocs \ {Hub}) :
            FitnessRaises(InitialMember(locations_to_visit, num_routes, Hub))
  THEN [error |-> "ZeroDivisionError", best |-> <<>>]
  ELSE IF SelectRaises(population_size)
  THEN [error |-> "AttributeError", best |-> <<>>]
  ELSE [error |-> "IndexError", best |-> <<>>]

\* one route long enough for mutate to reorder it
LongRouteList == << <<Hub>> \o [k \in 1..ReorderLen |-> k] \o <<Hub>> >>

\* distances between the hub and the stops: along a line, and around the hub
RouteGraphs ==
  {[a \in StopLocs, b \in StopLocs |-> LegLen * Abs(a - b)],
   [a \in StopLocs, b \in StopLocs |-> IF a = b THEN 0 ELSE DetourLen * (a + b)]}

StopCount(route_set) == SeqSum([k \in 1..Len(route_set) |-> Len(route_set[k]) - 2])

\* the RouteLists the next call can be made on: the one the last call
\* returned, which descends from a member of the first generation, or the
\* long one
Available ==
  IF call.op = "none" THEN {LongRouteList}
  ELSE IF call.op \in {"mutate", "offspring", "initial"} /\ ~call.raised
          /\ StopCount(call.new) <= MaxStops
       THEN {call.new}
       ELSE {}

\* the second parent: any RouteList for a member of the first generation,
\* one of the same stops and as many routes for a RouteList bred before
OtherParents(self) ==
  IF call.op = "initial" THEN ParentLists
  ELSE CoveringRouteLists(get_all_locations(self) \ {Hub}, Len(self))

OptInit ==
  /\ distance_table \in RouteGraphs
  /\ call = NoCall
  /\ SchedulerAtRest

\* Optimizer.generate_routes(all_location_list, hub, num_routes,
\* total_generations, population_size) on the stops
GenerateRoutes ==
  /\ call = NoCall
  /\ \E num_routes \in Around({MinRoutes, MaxRoutes}),
        total_generations \in Around({SaidMinGenerations, MinGenerations, MaxGenerations}),
        population_size \in Around({MinPopulation, MaxPopulation}) :
       LET o == generate_routes(num_routes, total_generations, population_size)
       IN  call' = [op |-> "generate_routes", num_routes |-> num_routes,
                    total_generations |-> total_generations,
                    population_size |-> population_size,
                    raised |-> o.error = "ValueError",
                    error |-> o.error, best |-> o.best]
  /\ UNCHANGED <<distance_table, scheduler_vars>>

\* Optimizer.generate_routes, lines 75-89: a member of the first generation
InitialPopulation ==
  /\ call = NoCall
  /\ \E num_routes \in 1..NumRoutes, locations_to_visit \in Perms(StopLocs \ {Hub}) :
       call' = [op |-> "initial", num_routes |-> num_routes,
                new |-> InitialMember(locations_to_visit, num_routes, Hub),
                raised |-> FALSE]
  /\ UNCHANGED <<distance_table, scheduler_vars>>

\* RouteList.mutate()
Mutate ==
  /\ \E self \in Available : \E o \in mutate(self) :
       call' = [op |-> "mutate", before |-> self, self |-> o.self,
                new |-> o.new, raised |-> o.raised]
  /\ UNCHANGED <<distance_table, scheduler_vars>>

\* RouteList.offspring(other_parent, hub_location)
Offspring ==
  /\ \E self \in Available \ {LongRouteList} : \E other_parent \in OtherParents(self) :
       \E o \in offspring(self, other_parent, Hub) :
         call' = [op |-> "offspring", before |-> self, other_before |-> other_parent,
                  self |-> o.self, other |-> o.other,
                  new |-> o.new, raised |-> o.raised]
  /\ UNCHANGED <<distance_table, scheduler_vars>>

OptNext == GenerateRoutes \/ InitialPopulation \/ Mutate \/ Offspring

OptSpec == OptInit /\ [][OptNext]_vars

\* ------------------------------------------- the refiner as a function
\* The refiner is called on the scheduler's parcels, priorities and clock and
\* on the distance table; the other attributes of the scheduler play no part.
ShortWeight == 1      \* the short edges of the graphs the refiner is called on

\* distance tables with short and long edges: a long edge is a detour when
\* the two other edges are short
RefinerGraphs ==
  {g \in WeightedGraphs :
     \A a \in Locs, b \in Locs : g[a, b] \in {0, ShortWeight, MaxWeight}}

\* parcels without special codes, to any location, due early or at the end
\* of the day
RefinerParcels ==
  [Pkgs -> [destination : 1..NumLocs,
            deadline : {EODSec, EarlyDeadlineSec},
            truck : {{}}, delay : {0}, batch : {{}}, invalid : {FALSE},
            status : {InHub}]]

\* a route of the route list: from the hub through some locations, each
\* once, and back
RouteChoices ==
  {<<Hub>> \o order \o <<Hub>> :
     order \in UNION {Perms(S) : S \in (SUBSET (1..NumLocs)) \ {{}}}}

\* the load of a truck: parcels of the table, each at most once
Cargos == UNION {Perms(S) : S \in SUBSET Pkgs}

\* __optimize_route with the value of route_copy and new_route after each
\* of its steps
RefineSteps(w, cargo, route_to_optimize, now) ==
  LET package_locations == [i \in 1..Len(cargo) |-> w.pk[cargo[i]].destination]
      added == AddMissingFrom(route_to_optimize, package_locations, 1)
      kept == DropUnvisitedFrom(added, added, package_locations, 1)
      oriented == MaybeReverse(w, cargo, kept)
      urgent == UrgentFirstFrom(w, cargo, oriented, 1, now)
      spliced == dijkstra_route(urgent)
      new_route == Append(CollapseRepeats(spliced), Hub)
  IN  [added |-> added, kept |-> kept, oriented |-> oriented,
       urgent |-> urgent, spliced |-> spliced, new_route |-> new_route,
       optimized_route |-> dijkstra_route(new_route)]

RefinerInit ==
  /\ distance_table \in RefinerGraphs
  /\ packages \in RefinerParcels
  /\ package_priorities \in PriorityLists
  /\ prioritized_pkgs = SortByPriority(Pkgs)
  /\ current_time = DeliveryStart
  /\ route_list = <<>>
  /\ trucks = <<>>
  /\ drivers = {}
  /\ initialized_time = InitTime
  /\ saved_invalid_packages = <<>>
  /\ saved_delayed_packages = <<>>
  /\ phase = "new"
  /\ last_tick = "none"
  /\ prev = [op |-> "none"]
  /\ log = <<>>
  /\ call = NoCall

\* Scheduler.__optimize_route(packages_to_deliver, route_to_optimize)
Refine ==
  /\ \E cargo \in Cargos, route \in RouteChoices :
       call' = [op |-> "optimize_route", cargo |-> cargo, route |-> route,
                steps |-> RefineSteps(World(packages, trucks), cargo, route,
                                      current_time),
                result |-> optimize_route(World(packages, trucks), cargo, route,
                                          current_time)]
  /\ UNCHANGED <<distance_table, scheduler_vars>>

RefinerNext == Refine

RefinerSpec == RefinerInit /\ [][RefinerNext]_vars

\* -------------------------------------------------- prioritize_packages
\* Distances are in miles here, as the bands of the second pass are.
NearMiles == 5        \* a distance under 10 miles
MidMiles == 15        \* a distance under 20 miles
FarMiles == 25        \* a distance under 30 miles
OutMiles == 35        \* a distance of 30 miles or more
MaxListLen == 3       \* parcels in the list handed to prioritize_packages

\* minutes from the early deadline to 11:59:59 PM
EarlyMinutes == (EODSec - EarlyDeadlineSec) \div 60
EarlyScore == 25614   \* round(1409 ** 1.4)

\* the distance tables of the locations: the hub near or far out, the other
\* locations at any band from each other
MileGraphs ==
  {g \in [Locs \X Locs -> {0, NearMiles, MidMiles, FarMiles, OutMiles}] :
     \A a \in Locs, b \in Locs :
       /\ g[a, b] = g[b, a]
       /\ (g[a, b] = 0) = (a = b)
       /\ (a = Hub /\ b # Hub) => g[a, b] \in {NearMiles, OutMiles}}

\* the parcels of the list: to any location, the hub included, due early or
\* at the end of the day, with a BATCH code or without a code
ListedParcels ==
  [destination : Locs, deadline : {EODSec, EarlyDeadlineSec},
   special_code : {{}, {"BATCH"}}]

PackageLists == UNION {[1..n -> ListedParcels] : n \in 1..MaxListLen}

\* round(minutes_left ** 1.4) for the deadlines of the parcels
RoundPow14(minutes_left) ==
  IF minutes_left = 0 THEN 0
  ELSE IF minutes_left = EarlyMinutes THEN EarlyScore
  ELSE Inf

\* prioritize_packages, lines 180-211: the first pass for one parcel; the
\* special codes of a Package are a list, empty when it has none, so the test
\* of line 193 lets every parcel in
FirstPass(package) ==
  LET minutes_left == (EODSec - package.deadline) \div 60
      num_codes == Cardinality(package.special_code)
  IN  RoundPow14(minutes_left)
      + num_codes * 50
      + (IF "BATCH" \in package.special_code THEN 1000 ELSE 0)
      + (IF package.deadline # EODSec THEN 1000 ELSE 0)
      + distance_from(package.destination, Hub) * 10000

\* lines 224-230: what one other parcel adds
BandBonus(distance) ==
  IF distance < 10 THEN 10
  ELSE IF distance < 20 THEN 5
  ELSE IF distance < 30 THEN 2
  ELSE 0

\* lines 217-232: the value of priority in the inner loop for the parcel at a
\* when the inner loop has passed position i
RECURSIVE InnerPriority(_, _, _, _)
InnerPriority(package_list, priorities, a, i) ==
  IF i = 0 THEN 0
  ELSE InnerPriority(package_list, priorities, a, i - 1)
       + (IF i # a /\ priorities[i] > 0
          THEN BandBonus(distance_from(package_list[a].destination,
                                       package_list[i].destination))
          ELSE 0)

\* lines 214-232: priorities_to_add gets one entry for every pair of parcels
RECURSIVE PrioritiesToAddFrom(_, _, _)
PrioritiesToAddFrom(package_list, priorities, a) ==
  IF a > Len(package_list) THEN <<>>
  ELSE [i \in 1..Len(package_list) |->
          IF i = a THEN 0 ELSE InnerPriority(package_list, priorities, a, i)]
       \o PrioritiesToAddFrom(package_list, priorities, a + 1)

\* Optimizer.prioritize_packages(package_list, hub_location): the scores of
\* the first pass and the scores returned
prioritize_packages(package_list) ==
  LET priorities == [i \in 1..Len(package_list) |-> FirstPass(package_list[i])]
      priorities_to_add == PrioritiesToAddFrom(package_list, priorities, 1)
  IN  [first_pass |-> priorities,
       priorities |-> [i \in 1..Len(package_list) |->
                         priorities[i] + priorities_to_add[i]]]

PriorityInit ==
  /\ distance_table \in MileGraphs
  /\ call = NoCall
  /\ SchedulerAtRest

\* main.py calls it once, on the parcels of the table
PrioritizePackages ==
  /\ call = NoCall
  /\ \E package_list \in PackageLists :
       call' = [op |-> "prioritize_packages", package_list |-> package_list,
                scores |-> prioritize_packages(package_list)]
  /\ UNCHANGED <<distance_table, scheduler_vars>>

PriorityNext == PrioritizePackages

PrioritySpec == PriorityInit /\ [][PriorityNext]_vars

\* ------------------------------------------------------------- properties
Loads == {i \in 1..Len(log) : log[i].op = "load"}

AfterTick == prev.op = "tick"

Resolved(pkg) == pkg.status.k = "DELIVERED" \/ pkg.status.k = "ATTEMPTED"

\* C1: the number of parcels in a vehicle's load never exceeds the vehicle's
\* configured capacity, in every state any sequence of initialize, tick,
\* resetDay (and address corrections) reaches.
C1_CapacityNeverExceeded ==
  \A t \in TruckIds : Len(trucks[t].packages) <= trucks[t].capacity

\* A dispatch filled a truck to its capacity and left behind a parcel that was
\* ready in the hub.
C1_Witness ==
  /\ AfterTick
  /\ \E i \in Loads :
       /\ Len(trucks[log[i].truck].packages) = trucks[log[i].truck].capacity
       /\ \E p \in Pkgs : /\ packages[p].status = InHub
                          /\ prev.packages[p].status = InHub
                          /\ ~packages[p].invalid
                          /\ packages[p].truck = {}

\* C2: a parcel carrying TRUCK[ids] is never in the load of a vehicle whose
\* id is not in ids, whichever pass of a dispatch loaded it.
C2_TruckRestriction ==
  \A t \in TruckIds : \A i \in 1..Len(trucks[t].packages) :
    LET pkg == packages[trucks[t].packages[i]]
    IN  pkg.truck = {} \/ t \in pkg.truck

\* C3: when a dispatch loads a parcel P carrying BATCH[ids] onto vehicle V,
\* every parcel of ids that is IN_HUB at that moment is loaded onto V in the
\* same dispatch (a vehicle is dispatched at most once in a tick).  Peers
\* that carry INVALID, or a TRUCK code that excludes V, are left out here:
\* the property is stated for peers that no other rule keeps off V.
C3_BatchLoadedTogether ==
  \A i \in Loads :
    \A q \in packages[log[i].pkg].batch :
      (/\ q \in log[i].hub
       /\ q # log[i].pkg
       /\ ~packages[q].invalid
       /\ (packages[q].truck = {} \/ log[i].truck \in packages[q].truck))
        => \E j \in Loads : log[j].pkg = q /\ log[j].truck = log[i].truck

\* C4: while a parcel carries INVALID its status is IN_HUB in every state,
\* and a load that tries to put it EN_ROUTE ends the tick with an error and
\* leaves its status as it was.
C4_InvalidHeldInHub ==
  /\ \A p \in Pkgs : packages[p].invalid => packages[p].status = InHub
  /\ \A i \in 1..Len(log) :
       packages[log[i].pkg].invalid
         => /\ last_tick = "error"
            /\ packages[log[i].pkg].status = log[i].before

\* A tick dispatched a truck with a load while an INVALID parcel stayed in
\* the hub.
C4_Witness ==
  /\ AfterTick
  /\ last_tick = "more"
  /\ Loads # {}
  /\ \E p \in Pkgs : packages[p].invalid /\ AboardSet(World(packages, trucks), p) = {}

\* A state from which tick returns "more work" for ever: the day has begun,
\* parcels are unresolved, none is delayed, no truck is on the road, and no
\* dispatch is possible because no driver is free (or no truck is at the
\* hub).  A tick in such a state moves no truck, dispatches none and changes
\* no status, so the next state is such a state again.
FreeDrivers == {d \in drivers : \A t \in TruckIds : trucks[t].driver # d}

Stalled ==
  /\ phase = "ready"
  /\ current_time >= DeliveryStart
  /\ ~(\A p \in Pkgs : Resolved(packages[p]))
  /\ \A p \in Pkgs : packages[p].status.k # "DELAYED"
  /\ \A t \in TruckIds : ~is_en_route(trucks[t])
  /\ (FreeDrivers = {} \/ \A t \in TruckIds : ~is_at_hub(trucks[t]))

\* C5: with at least one vehicle, one driver and no INVALID parcel, repeated
\* ticks eventually return "no more work"; so no run reaches a state from
\* which every later tick returns "more work".
C5_TicksReachNoMoreWork ==
  (saved_invalid_packages = <<>> /\ \A p \in Pkgs : ~packages[p].invalid)
    => ~Stalled

C7_DeliveredIsFinal ==
  AfterTick =>
    \A p \in Pkgs :
      prev.packages[p].status.k = "DELIVERED"
        => /\ packages[p].status = prev.packages[p].status
           /\ AboardSet(World(packages, trucks), p) = {}

\* C8: every parcel a dispatch loads was IN_HUB immediately before the load
\* and aboard no vehicle.
C8_OnlyHubParcelsLoaded ==
  \A i \in Loads : log[i].before = InHub /\ log[i].aboard = {}

\* C9: when a vehicle arrives at a stop, attempt_delivery marks DELIVERED and
\* takes out of the load every loaded parcel for that stop, and leaves the
\* other loaded parcels aboard.  (Stops other than the hub: there the vehicle
\* is neither released nor loaded in the same tick.)
C9_AttemptDeliversAllForStop ==
  AfterTick =>
    \A t \in TruckIds :
      (DriveArrives(prev.trucks[t]) /\ Head(prev.trucks[t].route) # Hub
       /\ last_tick = "more")
        => \A i \in 1..Len(prev.trucks[t].packages) :
             LET p == prev.trucks[t].packages[i]
             IN  IF prev.packages[p].destination = Head(prev.trucks[t].route)
                 THEN /\ ~Contains(trucks[t].packages, p)
                      /\ packages[p].status.k = "DELIVERED"
                 ELSE Contains(trucks[t].packages, p)

\* C10: when tick returns "no more work", all parcels are delivered and
\* every vehicle is back at the hub with an empty route queue.
C10_NoMoreWorkMeansTrucksHome ==
  last_tick = "done"
    => /\ \A p \in Pkgs : Resolved(packages[p])
       /\ \A t \in TruckIds : is_at_hub(trucks[t])

\* C11: after reset_day, whatever ran before it, every truck is at the hub
\* with no load, no route, no driver and a zero odometer; every parcel has the
\* status initialize gave it (DELAYED UNTIL its time when it carries DELAY, IN
\* HUB otherwise); every parcel that was INVALID at initialize is INVALID with
\* the destination it had then; and the clock is the initialized clock.
C11_ResetDayRestores ==
  prev.op = "reset" =>
    /\ phase = "ready"
    /\ \A t \in TruckIds : trucks[t] = NewTruck(trucks[t].capacity)
    /\ \A p \in Pkgs :
         packages[p].status =
           IF packages[p].delay # 0
           THEN DelayedUntil(FormatTime(packages[p].delay)) ELSE InHub
    /\ \A i \in 1..Len(saved_invalid_packages) :
         /\ packages[saved_invalid_packages[i].id].invalid
         /\ packages[saved_invalid_packages[i].id].destination
              = saved_invalid_packages[i].destination
    /\ current_time = initialized_time

\* reset_day ran after a truck had driven, a parcel had been delivered and
\* the address of an INVALID parcel had been corrected.
C11_Witness ==
  /\ prev.op = "reset"
  /\ prev.driven # {}
  /\ prev.delivered # {}
  /\ prev.corrected # {}
  /\ prev.time < CorrectionTime

\* C13: the odometer counts every leg in full.  In one tick an en-route truck
\* covers either a minute's travel or, when it reaches the stop, what was left
\* of the leg; so over a whole queued stop sequence the odometer grows by the
\* length of the sequence, and a truck back at the hub has at least the round
\* trip to the nearest location on it.
C13_OdometerCountsTheRoute ==
  /\ AfterTick =>
       \A t \in TruckIds :
         (is_en_route(prev.trucks[t]) /\ last_tick = "more")
           => trucks[t].mileage
                = prev.trucks[t].mileage
                  + (IF DriveArrives(prev.trucks[t])
                     THEN prev.trucks[t].distance_to_next ELSE TravelPerMinute)
  /\ \A t \in TruckIds :
       (is_at_hub(trucks[t]) /\ trucks[t].mileage > 0)
         => \E l \in Locs \ {Hub} :
              trucks[t].mileage >= 2 * distance_from(Hub, l)

\* every walk from start to end that visits no location twice
SimplePaths(start, end) ==
  {p \in UNION {[1..n -> Locs] : n \in 1..Cardinality(Locs)} :
     /\ p[1] = start
     /\ p[Len(p)] = end
     /\ \A i \in 1..Len(p), j \in 1..Len(p) : p[i] = p[j] => i = j}

\* C12: the path dijkstra returns leads from start to end and its total
\* distance is the least over all paths from start to end: at most the
\* direct edge, and the direct edge exactly when no path over other
\* locations is shorter.
C12_DijkstraIsShortest ==
  call.op = "dijkstra" =>
    LET path == call.path
        direct == distance_from(call.start, call.end)
        paths == SimplePaths(call.start, call.end)
    IN  /\ path # <<>>
        /\ path[1] = call.start
        /\ path[Len(path)] = call.end
        /\ \A p \in paths : get_route_distance(path) <= get_route_distance(p)
        /\ get_route_distance(path) <= direct
        /\ (\A p \in paths : get_route_distance(p) >= direct)
             => get_route_distance(path) = direct

\* dijkstra was called where the way over a third location is shorter than
\* the direct edge, and returned a path shorter than the direct edge.
C12_Witness ==
  /\ call.op = "dijkstra"
  /\ call.start # call.end
  /\ \E i \in 1..Len(call.path) : call.path[i] \notin {call.start, call.end}
  /\ get_route_distance(call.path) < distance_from(call.start, call.end)


\* ------------------------------------------------- RouteList and Optimizer
CountOf(route_set, location) ==
  SeqSum([k \in 1..Len(route_set) |->
            Cardinality({ix \in 1..Len(route_set[k]) : route_set[k][ix] = location})])

NonHubStops(route_set) == get_all_locations(route_set) \ {Hub}

\* the coverage invariant: the non-hub stops of the routes are exactly
\* required, each on exactly one route, exactly once
CoverageInvariant(route_set, required) ==
  /\ NonHubStops(route_set) = required
  /\ \A location \in required : CountOf(route_set, location) = 1

\* C14: mutate() of a RouteList that satisfies the coverage invariant returns
\* a RouteList with exactly the same stops, each exactly once
C14_MutateKeepsCoverage ==
  (call.op = "mutate" /\ ~call.raised
     /\ CoverageInvariant(call.before, NonHubStops(call.before)))
  => CoverageInvariant(call.new, NonHubStops(call.before))

\* C17: mutate() leaves the RouteList it was called on as it was: the same
\* stops in the same order in every route
C17_MutateLeavesOriginal ==
  call.op = "mutate" => call.self = call.before

\* C15: a member of the first generation has num_routes routes that visit
\* every location to visit exactly once, and the offspring of two parents of
\* as many routes that both visit the same stops exactly once has as many
\* routes and visits these stops exactly once
C15_CoverageOfNewRouteLists ==
  /\ call.op = "initial" =>
        /\ Len(call.new) = call.num_routes
        /\ CoverageInvariant(call.new, Stops)
  /\ (call.op = "offspring" /\ ~call.raised
         /\ CoverageInvariant(call.before, NonHubStops(call.before))
         /\ CoverageInvariant(call.other_before, NonHubStops(call.before)))
      => /\ Len(call.new) = Len(call.before)
         /\ CoverageInvariant(call.new, NonHubStops(call.before))

\* an offspring of two covering parents in which a route is a route of
\* neither parent: stops were stripped or left over
C15_Witness ==
  /\ call.op = "offspring" /\ ~call.raised
  /\ Len(call.before) = NumRoutes
  /\ CoverageInvariant(call.before, Stops)
  /\ CoverageInvariant(call.other_before, Stops)
  /\ \E k \in 1..Len(call.new) :
       /\ Len(call.new[k]) > 2
       /\ call.new[k] \notin Range(call.before) \cup Range(call.other_before)

\* hub at both ends of the route and nowhere between
HubAtEnds(route) ==
  /\ ~BadEndpoints(route, Hub)
  /\ \A ix \in 2..(Len(route) - 1) : route[ix] # Hub

\* C16: every route of a RouteList made by the first generation, by mutate
\* or by offspring starts and ends at the hub, and mutate leaves the hub at
\* both ends of every route, and only there, in the routes it works on
C16_RoutesStartAndEndAtHub ==
  /\ (call.op \in {"initial", "mutate", "offspring"} /\ ~call.raised)
      => \A k \in 1..Len(call.new) : HubAtEnds(call.new[k])
  /\ call.op = "mutate" => \A k \in 1..Len(call.self) : HubAtEnds(call.self[k])

\* mutate moved the first or the last stop of a route
C16_Witness ==
  /\ call.op = "mutate" /\ ~call.raised
  /\ \E k \in 1..Len(call.new) :
       /\ Len(call.before[k]) > 2
       /\ \/ call.new[k][2] # call.before[k][2]
          \/ call.new[k][Len(call.new[k]) - 1] # call.before[k][Len(call.before[k]) - 1]

C20_RejectsWhatTheMessagesSay ==
  call.op = "generate_routes" =>
    (call.raised <=>
       \/ call.num_routes < MinRoutes \/ call.num_routes > MaxRoutes
       \/ call.total_generations < SaidMinGenerations
       \/ call.total_generations > MaxGenerations
       \/ call.population_size < MinPopulation
       \/ call.population_size >= SaidPopulationBelow)

\* C18: generate_routes, called with arguments it accepts, selects the best
\* of each generation and carries them into the next, and the best fitness
\* of a generation is never below the best fitness of the one before
C18_BestFitnessNeverDrops ==
  (call.op = "generate_routes" /\ ~call.raised)
  => /\ call.error = "none"
     /\ \A n \in 1..(Len(call.best) - 1) : call.best[n + 1] >= call.best[n]

\* C21: the generation loop of generate_routes ends: a call with accepted
\* arguments ranks at most total_generations generations in the loop and the
\* last one once more, and returns the best member without an error
C21_GenerationLoopEnds ==
  (call.op = "generate_routes" /\ ~call.raised)
  => /\ Len(call.best) <= call.total_generations + 1
     /\ call.error = "none"

\* ------------------------------------------------------ the phases of a tick
Dispatches == {i \in 1..Len(prev.events) : prev.events[i].op = "dispatch"}

Waits == {i \in 1..Len(prev.events) : prev.events[i].op = "wait"}

C23_ClockAdvancesIffMoreWork ==
  AfterTick =>
    /\ last_tick = "more" <=> current_time = prev.time + 1
    /\ last_tick # "more" => current_time = prev.time
    /\ last_tick = "done" => packages = prev.packages /\ trucks = prev.trucks

\* a tick returned that there is no more work while a truck was on the road
C23_Witness ==
  /\ AfterTick /\ last_tick = "done"
  /\ \E t \in TruckIds : is_en_route(trucks[t])

\* C24: before the delivery start a tick returns that there is more work and
\* changes the clock by one minute and the status of delayed parcels whose
\* time has come, to IN HUB, and nothing else
C24_BeforeDeliveryStart ==
  (AfterTick /\ prev.time < DeliveryStart) =>
    /\ last_tick = "more"
    /\ current_time = prev.time + 1
    /\ trucks = prev.trucks
    /\ log = <<>>
    /\ \A p \in Pkgs :
         \/ packages[p] = prev.packages[p]
         \/ /\ prev.packages[p].status.k = "DELAYED"
            /\ prev.time >= prev.packages[p].status.v
            /\ packages[p] = [prev.packages[p] EXCEPT !.status = InHub]

\* a tick before the delivery start put a delayed parcel in the hub
C24_Witness ==
  /\ AfterTick /\ prev.time < DeliveryStart
  /\ \E p \in Pkgs : /\ prev.packages[p].status.k = "DELAYED"
                     /\ packages[p].status = InHub

\* C25: in a tick at or after the delivery start with a parcel delayed until
\* a time at most the look-ahead away, no truck is sent out: no parcel is
\* loaded, no truck that was at the hub when the trucks had moved gets a
\* queue, and the truck and the driver picked for the dispatch are idle at
\* the end of the tick
C25_DispatchWaitsForDelayed ==
  (/\ AfterTick /\ last_tick = "more"
   /\ prev.time >= DeliveryStart
   /\ \E p \in Pkgs : /\ prev.packages[p].status.k = "DELAYED"
                      /\ prev.time >= prev.packages[p].status.v - LookAhead)
  => /\ Loads = {}
     /\ Dispatches = {}
     /\ \A t \in TruckIds : is_at_hub(prev.moved.tr[t]) => trucks[t].route = <<>>
     /\ \A p \in Pkgs :
          packages[p].status.k = "EN_ROUTE" => prev.packages[p].status.k = "EN_ROUTE"
     /\ \A i \in Waits :
          /\ is_at_hub(trucks[prev.events[i].truck])
          /\ trucks[prev.events[i].truck].driver = NoDriver
          /\ trucks[prev.events[i].truck].packages = <<>>
          /\ \A t \in TruckIds : trucks[t].driver # prev.events[i].driver

\* a truck that came back to the hub in this tick was picked with a free
\* driver and the dispatch was given up for a delayed parcel
C25_Witness ==
  /\ AfterTick /\ last_tick = "more"
  /\ prev.time >= DeliveryStart
  /\ \E p \in Pkgs :
       /\ prev.packages[p].status.k = "DELAYED"
       /\ prev.time >= prev.packages[p].status.v - LookAhead
  /\ \E i \in Waits : prev.trucks[prev.events[i].truck].route # <<>>

\* the trucks that reach the hub in the motion phase of the last tick
ArrivesAtHub(t) ==
  /\ AfterTick /\ last_tick = "more" /\ prev.time >= DeliveryStart
  /\ is_en_route(prev.trucks[t])
  /\ DriveArrives(prev.trucks[t])
  /\ Head(prev.trucks[t].route) = Hub

C26_KeptWitness ==
  \E t \in TruckIds :
    /\ ArrivesAtHub(t)
    /\ Len(prev.trucks[t].route) > 1
    /\ prev.moved.tr[t].driver # NoDriver

\* ------------------------------------------------------ the refined route
\* the stops queued on the truck by the dispatch recorded as event i: the
\* truck was idle when it was picked and nothing else touches its queue in
\* the tick
Pushed(i) == trucks[prev.events[i].truck].route

CoversLoad(i) ==
  \A k \in 1..Len(prev.events[i].cargo) :
    Contains(Pushed(i), prev.packages[prev.events[i].cargo[k]].destination)

\* C27: the stops queued by a dispatch end with the hub and contain the
\* destination of every parcel of the truck's load, on the chosen route or not
C27_PushedRouteCoversLoad ==
  (AfterTick /\ last_tick = "more") =>
    \A i \in Dispatches :
      /\ Pushed(i) # <<>>
      /\ Pushed(i)[Len(Pushed(i))] = Hub
      /\ CoversLoad(i)

\* the same for the dispatches that loaded a parcel
C27_LoadedDispatchCoversLoad ==
  (AfterTick /\ last_tick = "more") =>
    \A i \in Dispatches :
      prev.events[i].cargo # <<>> =>
        /\ Pushed(i) # <<>>
        /\ Pushed(i)[Len(Pushed(i))] = Hub
        /\ CoversLoad(i)

\* ------------------------------------------------- the steps of the refiner
Refined == call.op = "optimize_route"

RefinerWorld == World(packages, trucks)

\* the position-weighted priority sum of a sequence read from its first stop:
\* every position between the two hubs, the earlier the heavier
OrientationScore(cargo, route) ==
  WeightedSum(RefinerWorld, cargo, route, 1..(Len(route) - 2))

\* C28: the reversal step compares the position-weighted priority sum of the
\* sequence with the same sum of the reversed sequence, over all the
\* positions between the hubs in both, and reverses the sequence exactly
\* when the reversed one scores strictly higher
C28_ReversedWhenBackwardScoresHigher ==
  (Refined /\ Len(call.steps.kept) > 2) =>
    LET kept == call.steps.kept
    IN  call.steps.oriented =
          IF OrientationScore(call.cargo, Reverse(kept))
               > OrientationScore(call.cargo, kept)
          THEN Reverse(kept) ELSE kept

\* the destinations in the sequence of the parcels of the load that are due
\* within the hour
UrgentStops(cargo, route) ==
  {packages[cargo[k]].destination : k \in
     {k \in 1..Len(cargo) :
        /\ DeadlineSoon(packages[cargo[k]], current_time)
        /\ Contains(route, packages[cargo[k]].destination)}}

RECURSIVE ShortestVia(_, _, _)
ShortestVia(a, b, S) ==
  LET through == {distance_from(a, m) + ShortestVia(m, b, S \ {m}) : m \in S}
      all == through \cup {distance_from(a, b)}
  IN  CHOOSE d \in all : \A e \in all : d <= e

\* a way over other locations is strictly shorter than the direct hop
HasShortcut(a, b) == ShortestVia(a, b, Locs \ {a, b}) < distance_from(a, b)

RECURSIVE IsSubsequence(_, _)
IsSubsequence(s, t) ==
  IF s = <<>> THEN TRUE
  ELSE IF t = <<>> THEN FALSE
  ELSE IF Head(s) = Head(t) THEN IsSubsequence(Tail(s), Tail(t))
  ELSE IsSubsequence(s, Tail(t))

\* dijkstra_route made output of input by splicing in shortcuts and nothing else
OnlyShortcuts(input, output) ==
  /\ IsSubsequence(input, output)
  /\ (\A i \in 1..(Len(input) - 1) : ~HasShortcut(input[i], input[i + 1]))
       => output = input
  /\ Len(output) > Len(input)
       => \E i \in 1..(Len(input) - 1) : HasShortcut(input[i], input[i + 1])

\* C30: both calls of dijkstra_route in the refiner keep the stops of their
\* input in order, add stops only where a way over other locations is
\* strictly shorter than the direct hop, and return the input where no two
\* consecutive stops have such a way
C30_DijkstraRouteOnlySplices ==
  Refined =>
    /\ OnlyShortcuts(call.steps.urgent, call.steps.spliced)
    /\ OnlyShortcuts(call.steps.new_route, call.steps.optimized_route)

\* the elements of s at the positions of S, in the order of s
RECURSIVE AtPositions(_, _, _)
AtPositions(s, S, i) ==
  IF i > Len(s) THEN <<>>
  ELSE (IF i \in S THEN <<s[i]>> ELSE <<>>) \o AtPositions(s, S, i + 1)

\* s with only the last occurrence of every element
LastOccurrences(s) ==
  AtPositions(s, {i \in 1..Len(s) : \A j \in (i + 1)..Len(s) : s[j] # s[i]}, 1)

\* s with only the first occurrence of every element
FirstOccurrences(s) ==
  AtPositions(s, {i \in 1..Len(s) : \A j \in 1..(i - 1) : s[j] # s[i]}, 1)

\* C31: the collapse step keeps of every stop of the spliced sequence its
\* last occurrence only, in the order of the spliced sequence, and the hub is
\* appended to the result
C31_CollapseKeepsLastOccurrence ==
  Refined =>
    call.steps.new_route = Append(LastOccurrences(call.steps.spliced), Hub)

\* what the step does: the first occurrence of every stop is the one kept
C31_CollapseKeepsFirstOccurrence ==
  Refined =>
    call.steps.new_route = Append(FirstOccurrences(call.steps.spliced), Hub)

\* C32: the path dijkstra returns for an end that can be reached starts at
\* start, ends at end, goes from each location to a location linked to it and
\* holds no location twice
C32_DijkstraPathIsSimple ==
  call.op = "dijkstra" =>
    LET path == call.path
    IN  /\ path # <<>>
        /\ path[1] = call.start
        /\ path[Len(path)] = call.end
        /\ \A i \in 1..(Len(path) - 1) :
             <<path[i], path[i + 1]>> \in DOMAIN distance_table
        /\ \A i \in 1..Len(path), j \in 1..Len(path) : path[i] = path[j] => i = j

\* ------------------------------------------------- parcels, trucks, drivers
\* C33: a parcel with a DELAY code is IN HUB at the end of the first tick
\* whose clock has reached the time of the code, before the delivery start
\* or after it, and is not IN HUB at the end of an earlier tick
C33_DelayedUntilItsTime ==
  (AfterTick /\ last_tick = "more") =>
    \A p \in Pkgs :
      packages[p].delay # 0 =>
        /\ prev.time < packages[p].delay => packages[p].status # InHub
        /\ prev.time = packages[p].delay => packages[p].status = InHub

\* the same for the parcels without a TRUCK code
C33_UnrestrictedDelayedUntilItsTime ==
  (AfterTick /\ last_tick = "more") =>
    \A p \in Pkgs :
      (packages[p].delay # 0 /\ packages[p].truck = {}) =>
        /\ prev.time < packages[p].delay => packages[p].status.k = "DELAYED"
        /\ prev.time = packages[p].delay => packages[p].status = InHub

\* ------------------------------------------------------ the priority scores
\* the bonus of the second pass as a function of the parcel and the others
NearbyBonus(package_list, first_pass, a) ==
  SeqSum([i \in 1..Len(package_list) |->
            IF i # a /\ first_pass[i] > 0
            THEN BandBonus(distance_from(package_list[a].destination,
                                         package_list[i].destination))
            ELSE 0])

\* C34: the score of a parcel is its first-pass score plus, for every other
\* parcel with a positive first-pass score, the band bonus of the distance
\* between the two destinations; so two parcels of the list with the same
\* attributes and destination get the same score
C34_SecondPassBonus ==
  call.op = "prioritize_packages" =>
    LET package_list == call.package_list
    IN  /\ \A a \in 1..Len(package_list) :
             call.scores.priorities[a] =
               call.scores.first_pass[a]
               + NearbyBonus(package_list, call.scores.first_pass, a)
        /\ \A a, b \in 1..Len(package_list) :
             package_list[a] = package_list[b]
               => call.scores.priorities[a] = call.scores.priorities[b]

\* ----------------------------------------------------- the optimizer, again
\* C35: the density measures of a RouteList count a route of the hub alone,
\* which has no length, as 0 and never divide by zero; so generate_routes
\* does not end with a ZeroDivisionError when it is asked for more routes
\* than there are locations to visit
C35_DensityNeverDividesByZero ==
  call.op = "generate_routes" => call.error # "ZeroDivisionError"

\* C36: the RouteList offspring returns holds a route of each parent, with
\* the same stops in the same order, and every location of both parents
C36_OffspringKeepsARouteOfEachParent ==
  (call.op = "offspring" /\ ~call.raised) =>
    /\ \E k \in 1..Len(call.new) : call.new[k] \in Range(call.before)
    /\ \E k \in 1..Len(call.new) : call.new[k] \in Range(call.other_before)
    /\ get_all_locations(call.before) \cup get_all_locations(call.other_before)
         \subseteq get_all_locations(call.new)

\* the part of C36 about the locations alone
C36_OffspringKeepsAllLocations ==
  (call.op = "offspring" /\ ~call.raised) =>
    get_all_locations(call.before) \cup get_all_locations(call.other_before)
      \subseteq get_all_locations(call.new)

\* ------------------------------------------------- loads, drivers, delivery
\* C37: at the end of every tick a parcel is in the load of truck t exactly
\* when its status is EN ROUTE on t, and it is in the load of at most one
\* truck, at most once
C37_LoadMatchesStatus ==
  AfterTick =>
    \A p \in Pkgs :
      /\ \A t \in TruckIds :
           /\ Contains(trucks[t].packages, p) <=> packages[p].status = EnRoute(t)
           /\ Count(trucks[t].packages, p) <= 1
      /\ Cardinality({t \in TruckIds : Contains(trucks[t].packages, p)}) <= 1

\* the same for the parcels without a TRUCK code
C37_UnrestrictedLoadMatchesStatus ==
  AfterTick =>
    \A p \in Pkgs :
      packages[p].truck = {} =>
        /\ \A t \in TruckIds :
             /\ Contains(trucks[t].packages, p) <=> packages[p].status = EnRoute(t)
             /\ Count(trucks[t].packages, p) <= 1
        /\ Cardinality({t \in TruckIds : Contains(trucks[t].packages, p)}) <= 1

\* C38: at the end of every tick a truck that is at the hub with nothing
\* queued has no driver and no load
C38_IdleTruckHasNoDriver ==
  AfterTick =>
    \A t \in TruckIds :
      is_at_hub(trucks[t]) =>
        trucks[t].driver = NoDriver /\ trucks[t].packages = <<>>

\* the part of C38 about the load
C38_IdleTruckHasNoLoad ==
  AfterTick =>
    \A t \in TruckIds : is_at_hub(trucks[t]) => trucks[t].packages = <<>>

\* C39: in every state every truck with a stop queued has a driver, no
\* driver is on two trucks, so no more trucks are en route than there are
\* drivers; and the driver a dispatch or a wait takes was on no truck when
\* the dispatches of the tick began, and is taken once in the tick
C39_DriversOnOneTruck ==
  /\ \A t \in TruckIds : is_en_route(trucks[t]) => trucks[t].driver \in drivers
  /\ \A t, u \in TruckIds :
       (t # u /\ trucks[t].driver # NoDriver) => trucks[t].driver # trucks[u].driver
  /\ Cardinality({t \in TruckIds : is_en_route(trucks[t])}) <= Cardinality(drivers)
  /\ AfterTick =>
       \A i \in 1..Len(prev.events) :
         /\ \A u \in TruckIds : prev.moved.tr[u].driver # prev.events[i].driver
         /\ \A j \in 1..Len(prev.events) :
              prev.events[i].driver = prev.events[j].driver => i = j

\* after a tick every driver is on the road and a truck stays in the hub with
\* a parcel that is ready
C39_Witness ==
  /\ AfterTick
  /\ Dispatches # {}
  /\ {trucks[t].driver : t \in {u \in TruckIds : is_en_route(trucks[u])}} = drivers
  /\ \E t \in TruckIds : is_at_hub(trucks[t]) /\ trucks[t].driver = NoDriver
  /\ \E p \in Pkgs : packages[p].status = InHub /\ ~packages[p].invalid

\* the parcels a tick marked DELIVERED
NewlyDelivered ==
  {p \in Pkgs : /\ packages[p].status.k = "DELIVERED"
                /\ packages[p].status # prev.packages[p].status}

\* C40: a tick marks a parcel DELIVERED only if a truck that carried the
\* parcel reached, in that tick, a stop that is the parcel's destination, and
\* the time it records is the clock of the tick
C40_DeliveredOnlyOnArrival ==
  AfterTick =>
    \A p \in NewlyDelivered :
      /\ packages[p].status.v = FormatTime(prev.time)
      /\ \E t \in TruckIds :
           /\ Contains(prev.trucks[t].packages, p)
           /\ DriveArrives(prev.trucks[t])
           /\ Head(prev.trucks[t].route) = prev.packages[p].destination
           /\ prev.moved.tr[t].last_location = packages[p].destination

\* a tick delivered a parcel from a truck that still carries a parcel for
\* another stop
C40_Witness ==
  /\ AfterTick
  /\ \E p \in NewlyDelivered : \E t \in TruckIds :
       /\ Contains(prev.trucks[t].packages, p)
       /\ \E q \in Pkgs :
            /\ Contains(trucks[t].packages, q)
            /\ packages[q].destination # packages[p].destination
            /\ packages[q].status = EnRoute(t)

====
